---- MODULE Spec2Model ----
(***************************************************************************)
(* blueis: a key-value store serialised through one worker goroutine       *)
(* (package kvstore) and a consistent-hashing ring (package node).         *)
(*                                                                         *)
(* Strings are modelled by small integers (keys 1..NumKeys, values         *)
(* 1..NumVals); a nil *string is Nil.  An unbuffered Go channel holds      *)
(* nothing: a send and the matching receive are one step of the model.     *)
(***************************************************************************)
EXTENDS Integers, Sequences, FiniteSets, TLC

\* ---------------------------------------------------------------- bounds
NumProcs == 2
NumKeys == 2
NumVals == 2
MaxCalls == 3
MaxCloses == 1
MaxNodes == 3
MaxWeight == 1
MaxNodesPerWeight == 2
NumUrls == 1
HashBitsKept == 2

Procs == 1..NumProcs
Keys == 1..NumKeys
Vals == 1..NumVals

\* ------------------------------------------------------ program constants
DELETE == 0
UPDATE == 1
PUT == 2
GET == 3

Nil == 0

\* the error values the package produces (the nil error is ErrNone)
ErrNone == "nil"
ErrClosed == "KeyValueService has been closed"
ErrNilValue == "value given was nil for put command"
ErrKeyNotFound == "key does not exist in the store"
ErrUnknownCommand == "command type not found"

VARIABLES
    \* package kvstore
    store,        \* KeyValueStore.store: the map, a function on the keys present
    isActive,     \* KeyValueService.isActive
    ctxDone,      \* the context of the worker has been cancelled
    workerPc,     \* the worker: "select", "process", "reply", "stopped"
    msg,          \* the command the worker received from input
    outbox,       \* the results the worker has still to send on msg.output
    pc,           \* per caller: "idle", "send" (blocked on input), "recv" (blocked on outputCh)
    cmd,          \* per caller: the command it built
    closePc,      \* the goroutine that calls Close: "idle", "cancel"
    \* history of the calls, for stating the properties
    calls,        \* one record per Set/Get/Delete call, in order of invocation
    cur,          \* per caller: the index in calls of its current call
    log,          \* the calls in the order the worker dequeued their commands
    clock,        \* counts the invocations, dequeues and returns
    closes,       \* number of Close() calls that have returned
    \* package node
    nodesPerWeight,
    nodes,
    vnodes,
    latestNodeId,
    found,        \* result of the last FindNode on the current ring
    ringOp,       \* the last AddNode or RemoveNode: its id and the entries it added or removed
    added,        \* the ids the AddNode calls assigned, in the order of the calls
    hashWidth     \* the low bits of fnv32 that a virtual node's hash keeps; 32 in the program

kvVars == <<store, isActive, ctxDone, workerPc, msg, outbox, pc, cmd, closePc>>
histVars == <<calls, cur, log, clock, closes>>
ringVars == <<nodesPerWeight, nodes, vnodes, latestNodeId, found, ringOp, added, hashWidth>>
vars == <<kvVars, histVars, ringVars>>

\* ------------------------------------------------------------ the store

NoCmd == [commandType |-> -1, key |-> 0, value |-> Nil, output |-> 0]

KeyValueCommand(t, k, v, ch) == [commandType |-> t, key |-> k, value |-> v, output |-> ch]

KeyValueOutput(s, v, e) == [success |-> s, value |-> v, err |-> e]

\* mutant: the assignment replaces the map by one holding the key alone
MapSet_Lossy(m, k, v) == [x \in {k} |-> v]

MapSet(m, k, v) == [x \in DOMAIN m \cup {k} |-> IF x = k THEN v ELSE m[x]]

MapDelete(m, k) == [x \in DOMAIN m \ {k} |-> m[x]]

EmptyMap == [x \in {} |-> Nil]

\* mutant: a Put leaves the value of a key that is already present
ProcessPutCommand_NoOverwrite(m, command) ==
    IF command.value = Nil
    THEN [store |-> m, sends |-> <<[success |-> FALSE, value |-> Nil, err |-> ErrNilValue]>>]
    ELSE [store |-> IF command.key \in DOMAIN m THEN m
                    ELSE [x \in DOMAIN m \cup {command.key} |->
                             IF x = command.key THEN command.value ELSE m[x]],
          sends |-> <<[success |-> TRUE, value |-> command.value, err |-> ErrNone]>>]

\* Each Process*Command yields the map afterwards and the values it sends on
\* command.output, in order.
ProcessPutCommand(m, command) ==
    IF command.value = Nil
    THEN [store |-> m, sends |-> <<KeyValueOutput(FALSE, Nil, ErrNilValue)>>]
    ELSE [store |-> MapSet(m, command.key, command.value),
          sends |-> <<KeyValueOutput(TRUE, command.value, ErrNone)>>]

\* mutant: the branch of the missing key sends no reply
ProcessGetCommand_NoReply(m, command) ==
    IF command.key \in DOMAIN m
    THEN [store |-> m, sends |-> <<KeyValueOutput(TRUE, m[command.key], ErrNone)>>]
    ELSE [store |-> m, sends |-> <<>>]

\* mutant: a missing key is answered like a present one, with no error
ProcessGetCommand_NoError(m, command) ==
    IF command.key \in DOMAIN m
    THEN [store |-> m, sends |-> <<KeyValueOutput(TRUE, m[command.key], ErrNone)>>]
    ELSE [store |-> m, sends |-> <<KeyValueOutput(TRUE, Nil, ErrNone)>>]

ProcessGetCommand(m, command) ==
    IF command.key \in DOMAIN m
    THEN [store |-> m, sends |-> <<KeyValueOutput(TRUE, m[command.key], ErrNone)>>]
    ELSE [store |-> m, sends |-> <<KeyValueOutput(FALSE, Nil, ErrKeyNotFound)>>]

\* mutant: the value is returned but the key is left in the map
ProcessDeleteCommand_NoDelete(m, command) ==
    IF command.key \in DOMAIN m
    THEN [store |-> m, sends |-> <<KeyValueOutput(TRUE, m[command.key], ErrNone)>>]
    ELSE [store |-> m, sends |-> <<KeyValueOutput(TRUE, Nil, ErrNone)>>]

\* mutant: deleting a missing key is an error, as for Get
ProcessDeleteCommand_ErrOnMissing(m, command) ==
    IF command.key \in DOMAIN m
    THEN [store |-> MapDelete(m, command.key),
          sends |-> <<KeyValueOutput(TRUE, m[command.key], ErrNone)>>]
    ELSE [store |-> m, sends |-> <<KeyValueOutput(FALSE, Nil, ErrKeyNotFound)>>]

ProcessDeleteCommand(m, command) ==
    IF command.key \in DOMAIN m
    THEN [store |-> MapDelete(m, command.key),
          sends |-> <<KeyValueOutput(TRUE, m[command.key], ErrNone)>>]
    ELSE [store |-> m, sends |-> <<KeyValueOutput(TRUE, Nil, ErrNone)>>]

ProcessCommand(m, command) ==
    CASE command.commandType = PUT -> ProcessPutCommand(m, command)
      [] command.commandType = GET -> ProcessGetCommand(m, command)
      [] command.commandType = DELETE -> ProcessDeleteCommand(m, command)
      [] OTHER -> [store |-> m, sends |-> <<KeyValueOutput(FALSE, Nil, ErrUnknownCommand)>>]

\* ---------------------------------------------------------- the service

\* mutant: the flag is not looked at
CheckActive_Always(active) == ErrNone

CheckActive(active) == IF active THEN ErrNone ELSE ErrClosed

\* outputCh := make(chan KeyValueOutput): a channel no other call has
MakeOutputCh(id) == id

CallRec(p, t, k, v, err) ==
    [proc |-> p, op |-> t, key |-> k, val |-> v,
     inv |-> clock + 1, afterClose |-> closes > 0,
     deq |-> 0, ret |-> IF err = ErrNone THEN 0 ELSE clock + 1,
     res |-> Nil, err |-> err, nrecv |-> 0, from |-> 0,
     applied |-> FALSE, pre |-> EmptyMap, post |-> EmptyMap,
     activeAtDeq |-> FALSE, activeAtRet |-> FALSE]

\* Set, Get and Delete up to the send on kvService.input
Call(p, t, k, v) ==
    /\ pc[p] = "idle"
    /\ Len(calls) < MaxCalls
    /\ LET err == CheckActive(isActive)
           id == Len(calls) + 1
       IN /\ calls' = Append(calls, CallRec(p, t, k, v, err))
          /\ cur' = [cur EXCEPT ![p] = id]
          /\ IF err # ErrNone
             THEN UNCHANGED <<pc, cmd>>
             ELSE /\ pc' = [pc EXCEPT ![p] = "send"]
                  /\ cmd' = [cmd EXCEPT ![p] = KeyValueCommand(t, k, v, MakeOutputCh(id))]
    /\ clock' = clock + 1
    /\ UNCHANGED <<store, isActive, ctxDone, workerPc, msg, outbox, closePc, log, closes>>
    /\ UNCHANGED ringVars

Set(p, k, v) == Call(p, PUT, k, v)

Get(p, k) == Call(p, GET, k, Nil)

Delete(p, k) == Call(p, DELETE, k, Nil)

\* Close: the write of isActive, then the cancel function.  The flag is
\* written here and read in CheckActive with no synchronisation; the write is
\* one step, so a call that runs while Close does may read either value.
CloseDeactivate ==
    /\ closePc = "idle"
    /\ closes < MaxCloses
    /\ isActive' = FALSE
    /\ closePc' = "cancel"
    /\ UNCHANGED <<store, ctxDone, workerPc, msg, outbox, pc, cmd>>
    /\ UNCHANGED histVars
    /\ UNCHANGED ringVars

\* mutant: Close returns without calling the cancel function
CloseCancel_Forgotten ==
    /\ closePc = "cancel"
    /\ closePc' = "idle"
    /\ closes' = closes + 1
    /\ UNCHANGED <<store, isActive, ctxDone, workerPc, msg, outbox, pc, cmd>>
    /\ UNCHANGED <<calls, cur, log, clock>>
    /\ UNCHANGED ringVars

CloseCancel ==
    /\ closePc = "cancel"
    /\ ctxDone' = TRUE
    /\ closePc' = "idle"
    /\ closes' = closes + 1
    /\ UNCHANGED <<store, isActive, workerPc, msg, outbox, pc, cmd>>
    /\ UNCHANGED <<calls, cur, log, clock>>
    /\ UNCHANGED ringVars

\* the owner of the context cancels it without Close
CancelCtx ==
    /\ ~ctxDone
    /\ ctxDone' = TRUE
    /\ UNCHANGED <<store, isActive, workerPc, msg, outbox, pc, cmd, closePc>>
    /\ UNCHANGED histVars
    /\ UNCHANGED ringVars

\* ----------------------------------------------------------- the worker

\* case msg := <-input, meeting caller p's send; p goes on to <-outputCh
Dequeue(p) ==
    /\ workerPc = "select"
    /\ pc[p] = "send"
    /\ msg' = cmd[p]
    /\ workerPc' = "process"
    /\ pc' = [pc EXCEPT ![p] = "recv"]
    /\ log' = Append(log, cur[p])
    /\ calls' = [calls EXCEPT ![cur[p]] =
                    [@ EXCEPT !.deq = clock + 1, !.activeAtDeq = isActive]]
    /\ clock' = clock + 1
    /\ UNCHANGED <<store, isActive, ctxDone, outbox, cmd, closePc, cur, closes>>
    /\ UNCHANGED ringVars

\* mutant: the worker sends once more on command.output, where nobody receives
AfterSends_Again(sends) == "reply"

\* where the worker stands once nothing is left to send
AfterSends(sends) == IF sends = <<>> THEN "select" ELSE "reply"

\* kvStore.ProcessCommand(msg) up to its send on command.output
Process ==
    /\ workerPc = "process"
    /\ LET r == ProcessCommand(store, msg)
       IN /\ store' = r.store
          /\ outbox' = r.sends
          /\ workerPc' = AfterSends(r.sends)
          /\ calls' = [calls EXCEPT ![log[Len(log)]] =
                          [@ EXCEPT !.applied = TRUE, !.pre = store, !.post = r.store]]
    /\ UNCHANGED <<isActive, ctxDone, msg, pc, cmd, closePc>>
    /\ UNCHANGED <<cur, log, clock, closes>>
    /\ UNCHANGED ringVars

\* command.output <- result, meeting res := <-outputCh of caller p, which returns
Reply(p) ==
    /\ workerPc = "reply"
    /\ pc[p] = "recv"
    /\ cmd[p].output = msg.output
    /\ LET out == Head(outbox)
       IN calls' = [calls EXCEPT ![cur[p]] =
                       [@ EXCEPT !.res = out.value, !.err = out.err,
                                 !.ret = clock + 1, !.nrecv = @ + 1,
                                 !.from = log[Len(log)], !.activeAtRet = isActive]]
    /\ outbox' = Tail(outbox)
    /\ workerPc' = AfterSends(Tail(outbox))
    /\ pc' = [pc EXCEPT ![p] = "idle"]
    /\ clock' = clock + 1
    /\ UNCHANGED <<store, isActive, ctxDone, msg, cmd, closePc, cur, log, closes>>
    /\ UNCHANGED ringVars

\* mutant: on its way out the worker releases the callers waiting to send
WorkerStop_Unblock ==
    /\ workerPc = "select"
    /\ ctxDone
    /\ workerPc' = "stopped"
    /\ pc' = [p \in Procs |-> IF pc[p] = "send" THEN "idle" ELSE pc[p]]
    /\ UNCHANGED <<store, isActive, ctxDone, msg, outbox, cmd, closePc>>
    /\ UNCHANGED histVars
    /\ UNCHANGED ringVars

\* case <-ctx.Done(): return
WorkerStop ==
    /\ workerPc = "select"
    /\ ctxDone
    /\ workerPc' = "stopped"
    /\ UNCHANGED <<store, isActive, ctxDone, msg, outbox, pc, cmd, closePc>>
    /\ UNCHANGED histVars
    /\ UNCHANGED ringVars

\* ------------------------------------------------------------- the ring

\* A uint32 is the pair <<high 16 bits, low 16 bits>>.
HashLess(a, b) == a[1] < b[1] \/ (a[1] = b[1] /\ a[2] < b[2])

HashGeq(a, b) == ~HashLess(a, b)

RECURSIVE XorBits(_, _, _)
XorBits(a, b, n) ==
    IF n = 0 THEN 0
    ELSE (((a % 2) + (b % 2)) % 2) + 2 * XorBits(a \div 2, b \div 2, n - 1)

\* hash ^= byte: only the low byte changes
HashXorByte(h, b) == <<h[1], (h[2] \div 256) * 256 + XorBits(h[2] % 256, b, 8)>>

\* hash *= 16777619 (0x01000193) modulo 2^32
HashMulPrime(h) ==
    LET lo == h[2] * 403
    IN <<(h[1] * 403 + h[2] * 256 + (lo \div 65536)) % 65536, lo % 65536>>

\* FNV-1a, from the offset basis 2166136261 (0x811C9DC5)
RECURSIVE Fnv1a(_, _)
Fnv1a(h, data) ==
    IF data = <<>> THEN h
    ELSE Fnv1a(HashMulPrime(HashXorByte(h, Head(data))), Tail(data))

fnv32(data) == Fnv1a(<<33052, 40389>>, data)

RECURSIVE Pow2(_)
Pow2(n) == IF n = 0 THEN 1 ELSE 2 * Pow2(n - 1)

\* the low w bits of a hash.  The program keeps all 32; a ring cut to fewer
\* bits stands for a ring with so many entries that two of their 32-bit hashes
\* are equal, which the few entries within the bounds never are.
LowBits(h, w) ==
    IF w >= 32 THEN h
    ELSE IF w >= 16 THEN <<h[1] % Pow2(w - 16), h[2]>>
    ELSE <<0, h[2] % Pow2(w)>>

\* the bytes of fmt.Sprintf("%d", n), n >= 0
RECURSIVE Digits(_)
Digits(n) == IF n < 10 THEN <<48 + n>> ELSE Digits(n \div 10) \o <<48 + (n % 10)>>

\* the bytes of fmt.Sprintf("%d-%d", id, i)
VNodeKey(id, i) == Digits(id) \o <<45>> \o Digits(i)

MakeNode(id, url) == [id |-> id, url |-> url]

VNode(nodeId, hash) == [nodeId |-> nodeId, hash |-> hash]

\* the zero value of Node, which a map read of a missing key yields
ZeroNode == MakeNode(0, 0)

MakeNodeService(npw) ==
    /\ nodesPerWeight = npw
    /\ nodes = EmptyMap
    /\ vnodes = <<>>
    /\ latestNodeId = 0

RemoveAt(s, i) == SubSeq(s, 1, i - 1) \o SubSeq(s, i + 1, Len(s))

\* mutant: the slice is left as appended
SortSlice_None(s) == {s}

\* sort.Slice with less(i, j) = vnodes[i].hash < vnodes[j].hash: every ordering
\* of s that is ascending in hash (the sort is not stable, so equal hashes may
\* come out in any order)
RECURSIVE SortSlice(_)
SortSlice(s) ==
    IF s = <<>> THEN {<<>>}
    ELSE LET least == {i \in 1..Len(s) :
                          \A j \in 1..Len(s) : ~HashLess(s[j].hash, s[i].hash)}
         IN UNION {{<<s[i]>> \o t : t \in SortSlice(RemoveAt(s, i))} : i \in least}

\* mutant: the loop runs once more than numVNodes times
RECURSIVE AppendVNodes_OneMore(_, _, _, _)
AppendVNodes_OneMore(s, id, i, numVNodes) ==
    IF i > numVNodes THEN s
    ELSE AppendVNodes_OneMore(Append(s, VNode(id, LowBits(fnv32(VNodeKey(id, i)), hashWidth))),
                              id, i + 1, numVNodes)

\* the loop of AddNode, from iteration i on
RECURSIVE AppendVNodes(_, _, _, _)
AppendVNodes(s, id, i, numVNodes) ==
    IF i >= numVNodes THEN s
    ELSE AppendVNodes(Append(s, VNode(id, LowBits(fnv32(VNodeKey(id, i)), hashWidth))),
                      id, i + 1, numVNodes)

\* mutant: the entries kept come out in the opposite order
RECURSIVE FilterVNodes_Reversed(_, _)
FilterVNodes_Reversed(s, id) ==
    IF s = <<>> THEN <<>>
    ELSE IF id # Head(s).nodeId
         THEN FilterVNodes_Reversed(Tail(s), id) \o <<Head(s)>>
         ELSE FilterVNodes_Reversed(Tail(s), id)

\* mutant: the loop drops the first matching entry only
RECURSIVE FilterVNodes_First(_, _)
FilterVNodes_First(s, id) ==
    IF s = <<>> THEN <<>>
    ELSE IF id # Head(s).nodeId
         THEN <<Head(s)>> \o FilterVNodes_First(Tail(s), id)
         ELSE Tail(s)

\* the loop of RemoveNode
RECURSIVE FilterVNodes(_, _)
FilterVNodes(s, id) ==
    IF s = <<>> THEN <<>>
    ELSE IF id # Head(s).nodeId
         THEN <<Head(s)>> \o FilterVNodes(Tail(s), id)
         ELSE FilterVNodes(Tail(s), id)

\* sort.Search(n, f) with f(i) = vnodes[i].hash >= hash, indices from 0
RECURSIVE SearchLoop(_, _, _, _)
SearchLoop(i, j, s, hash) ==
    IF i < j
    THEN LET h == (i + j) \div 2
         IN IF ~HashGeq(s[h + 1].hash, hash)
            THEN SearchLoop(h + 1, j, s, hash)
            ELSE SearchLoop(i, h, s, hash)
    ELSE i

Search(s, hash) == SearchLoop(0, Len(s), s, hash)

MapGet(m, k) == IF k \in DOMAIN m THEN m[k] ELSE ZeroNode

NoFind == [called |-> FALSE, hash |-> <<0, 0>>, panic |-> FALSE, node |-> ZeroNode]

\* mutant: no wrap-around, the last entry answers for a hash above all
FindNodeResult_NoWrap(vs, ns, hash) ==
    LET idx0 == Search(vs, hash)
        idx == IF idx0 = Len(vs) THEN Len(vs) - 1 ELSE idx0
    IN IF idx < 0
       THEN [called |-> TRUE, hash |-> hash, panic |-> TRUE, node |-> ZeroNode]
       ELSE [called |-> TRUE, hash |-> hash, panic |-> FALSE,
             node |-> MapGet(ns, vs[idx + 1].nodeId)]

\* FindNode as a function of the ring: the node returned, or a panic where
\* vnodes[idx] is out of range
FindNodeResult(vs, ns, hash) ==
    LET idx0 == Search(vs, hash)
        idx == IF idx0 = Len(vs) THEN 0 ELSE idx0
    IN IF idx >= Len(vs)
       THEN [called |-> TRUE, hash |-> hash, panic |-> TRUE, node |-> ZeroNode]
       ELSE [called |-> TRUE, hash |-> hash, panic |-> FALSE,
             node |-> MapGet(ns, vs[idx + 1].nodeId)]

NoOp == [op |-> "none", id |-> -1, count |-> 0, weight |-> 0]

\* mutant: the id is the number of registered nodes
NextId_Count(latest, ns) == Cardinality(DOMAIN ns)

\* id := nodeService.latestNodeId
NextId(latest, ns) == latest

\* a panic ends the process
Running == ~found.panic

AddNode(url, weight) ==
    /\ Running
    /\ latestNodeId < MaxNodes
    /\ LET numVNodes == weight * nodesPerWeight
           id == NextId(latestNodeId, nodes)
       IN /\ latestNodeId' = latestNodeId + 1
          /\ vnodes' \in SortSlice(AppendVNodes(vnodes, id, 0, numVNodes))
          /\ nodes' = [x \in DOMAIN nodes \cup {id} |->
                           IF x = id THEN MakeNode(id, url) ELSE nodes[x]]
          /\ ringOp' = [op |-> "AddNode", id |-> id, count |-> Len(vnodes') - Len(vnodes),
                        weight |-> weight]
          /\ added' = Append(added, id)
    /\ found' = NoFind
    /\ UNCHANGED <<nodesPerWeight, hashWidth>>
    /\ UNCHANGED <<kvVars, histVars>>

RemoveNode(id) ==
    /\ Running
    /\ vnodes' = FilterVNodes(vnodes, id)
    /\ nodes' = [x \in DOMAIN nodes \ {id} |-> nodes[x]]
    /\ ringOp' = [op |-> "RemoveNode", id |-> id, count |-> Len(vnodes) - Len(vnodes'),
                  weight |-> 0]
    /\ found' = NoFind
    /\ UNCHANGED <<nodesPerWeight, latestNodeId, added, hashWidth>>
    /\ UNCHANGED <<kvVars, histVars>>

FindNode(hash) ==
    /\ Running
    /\ found' = FindNodeResult(vnodes, nodes, hash)
    /\ UNCHANGED <<nodesPerWeight, nodes, vnodes, latestNodeId, ringOp, added, hashWidth>>
    /\ UNCHANGED <<kvVars, histVars>>

\* the hashes FindNode is asked for: the hash of every entry of the ring, the
\* hash next above it, and the ends of the range; any other hash lies between
\* the same two entries as one of these
HashSucc(h) ==
    IF h[2] < 65535 THEN <<h[1], h[2] + 1>>
    ELSE IF h[1] < 65535 THEN <<h[1] + 1, 0>> ELSE <<0, 0>>

Probes ==
    {vnodes[k].hash : k \in 1..Len(vnodes)}
        \cup {HashSucc(vnodes[k].hash) : k \in 1..Len(vnodes)}
        \cup {<<0, 0>>, <<65535, 65535>>}

RingInit ==
    /\ \E npw \in 1..MaxNodesPerWeight : MakeNodeService(npw)
    /\ found = NoFind
    /\ ringOp = NoOp
    /\ added = <<>>
    /\ hashWidth = 32

\* ------------------------------------------------------ specifications

\* GetKeyValueService: the worker is started, the service is active
Init ==
    /\ store = EmptyMap
    /\ isActive = TRUE
    /\ ctxDone = FALSE
    /\ workerPc = "select"
    /\ msg = NoCmd
    /\ outbox = <<>>
    /\ pc = [p \in Procs |-> "idle"]
    /\ cmd = [p \in Procs |-> NoCmd]
    /\ closePc = "idle"
    /\ calls = <<>>
    /\ cur = [p \in Procs |-> 0]
    /\ log = <<>>
    /\ clock = 0
    /\ closes = 0
    /\ MakeNodeService(1)
    /\ found = NoFind
    /\ ringOp = NoOp
    /\ added = <<>>
    /\ hashWidth = 32

Next ==
    \/ \E p \in Procs, k \in Keys, v \in Vals : Set(p, k, v)
    \/ \E p \in Procs, k \in Keys : Get(p, k)
    \/ \E p \in Procs, k \in Keys : Delete(p, k)
    \/ CloseDeactivate
    \/ CloseCancel
    \/ CancelCtx
    \/ \E p \in Procs : Dequeue(p)
    \/ Process
    \/ \E p \in Procs : Reply(p)
    \/ WorkerStop

Spec == Init /\ [][Next]_vars

\* The goroutines are scheduled: Close goes on to its cancel, the worker to
\* the end of ProcessCommand, a reply meets the caller waiting for it.  A
\* select with several ready cases picks one at random, so the ctx.Done()
\* case, ready every time the worker is back at the select, is picked at last.
Fairness ==
    /\ WF_vars(CloseCancel)
    /\ WF_vars(Process)
    /\ \A p \in Procs : WF_vars(Reply(p))
    /\ SF_vars(WorkerStop)

\* Whether the worker returns and whether a call returns does not hang on the
\* key or the value a command carries: the runs with fairness use one of each.
FairNext ==
    \/ \E p \in Procs : Set(p, 1, 1)
    \/ \E p \in Procs : Get(p, 1)
    \/ \E p \in Procs : Delete(p, 1)
    \/ CloseDeactivate
    \/ CloseCancel
    \/ CancelCtx
    \/ \E p \in Procs : Dequeue(p)
    \/ Process
    \/ \E p \in Procs : Reply(p)
    \/ WorkerStop

FairSpec == Init /\ [][FairNext]_vars /\ Fairness

\* Close is never called and the context never cancelled
NoCloseNext ==
    \/ \E p \in Procs : Set(p, 1, 1)
    \/ \E p \in Procs : Get(p, 1)
    \/ \E p \in Procs : Delete(p, 1)
    \/ \E p \in Procs : Dequeue(p)
    \/ Process
    \/ \E p \in Procs : Reply(p)

\* The senders blocked on the input channel wait in a queue, first come first
\* served, so the worker's receive meets every one of them at last.
NoCloseFairness ==
    /\ \A p \in Procs : SF_vars(Dequeue(p))
    /\ WF_vars(Process)
    /\ \A p \in Procs : WF_vars(Reply(p))

NoCloseSpec == Init /\ [][NoCloseNext]_vars /\ NoCloseFairness

\* the ring alone, the service untouched
RingStart ==
    /\ store = EmptyMap
    /\ isActive = TRUE
    /\ ctxDone = FALSE
    /\ workerPc = "select"
    /\ msg = NoCmd
    /\ outbox = <<>>
    /\ pc = [p \in Procs |-> "idle"]
    /\ cmd = [p \in Procs |-> NoCmd]
    /\ closePc = "idle"
    /\ calls = <<>>
    /\ cur = [p \in Procs |-> 0]
    /\ log = <<>>
    /\ clock = 0
    /\ closes = 0
    /\ RingInit

\* RemoveNode is asked for the ids assigned so far and for the next one, which
\* like every higher id no node carries yet
RingNext ==
    \/ \E url \in 1..NumUrls, weight \in 0..MaxWeight : AddNode(url, weight)
    \/ \E id \in 0..latestNodeId : RemoveNode(id)
    \/ \E hash \in Probes : FindNode(hash)

RingSpec == RingStart /\ [][RingNext]_vars

\* the service as GetKeyValueService leaves it
ServiceInit ==
    /\ store = EmptyMap
    /\ isActive = TRUE
    /\ ctxDone = FALSE
    /\ workerPc = "select"
    /\ msg = NoCmd
    /\ outbox = <<>>
    /\ pc = [p \in Procs |-> "idle"]
    /\ cmd = [p \in Procs |-> NoCmd]
    /\ closePc = "idle"
    /\ calls = <<>>
    /\ cur = [p \in Procs |-> 0]
    /\ log = <<>>
    /\ clock = 0
    /\ closes = 0

\* the ring with the hash at its full width, or cut to HashBitsKept bits so
\* that entries of different nodes can carry equal hashes
TieRingStart ==
    /\ ServiceInit
    /\ \E npw \in 1..MaxNodesPerWeight : MakeNodeService(npw)
    /\ found = NoFind
    /\ ringOp = NoOp
    /\ added = <<>>
    /\ hashWidth \in {HashBitsKept, 32}

TieRingSpec == TieRingStart /\ [][RingNext]_vars

\* ------------------------------------------------------------ properties

CallIds == 1..Len(calls)

\* the call was rejected by CheckActive: no command was built for it
Rejected(c) == calls[c].err = ErrClosed

Returned(c) == calls[c].ret # 0

\* the call went through the worker and came back
Answered(c) == Returned(c) /\ ~Rejected(c)

Mutator(c) == calls[c].op \in {PUT, DELETE} /\ ~Rejected(c)

\* a plain key-to-value map: what one command does to it and what it answers
RefApply(m, c) ==
    CASE c.op = PUT ->
           [map |-> [x \in DOMAIN m \cup {c.key} |-> IF x = c.key THEN c.val ELSE m[x]],
            res |-> c.val, err |-> ErrNone]
      [] c.op = GET ->
           [map |-> m,
            res |-> IF c.key \in DOMAIN m THEN m[c.key] ELSE Nil,
            err |-> IF c.key \in DOMAIN m THEN ErrNone ELSE ErrKeyNotFound]
      [] c.op = DELETE ->
           [map |-> [x \in DOMAIN m \ {c.key} |-> m[x]],
            res |-> IF c.key \in DOMAIN m THEN m[c.key] ELSE Nil,
            err |-> ErrNone]

\* the plain map after the first n commands of the log
RECURSIVE RefMap(_)
RefMap(n) == IF n = 0 THEN EmptyMap ELSE RefApply(RefMap(n - 1), calls[log[n]]).map

\* the commands of the log the worker has applied to the map
NumApplied == IF workerPc = "process" THEN Len(log) - 1 ELSE Len(log)

\* C1: the map and every result are those of applying the commands one at a
\* time to a plain map in the order the worker dequeued them, and each command
\* is dequeued between its call's invocation and its return, so that a call
\* that returned before another was invoked comes before it in that order.
C1_Linearizable ==
    /\ store = RefMap(NumApplied)
    /\ \A n \in 1..Len(log) :
          LET c == calls[log[n]]
          IN /\ c.inv < c.deq
             /\ n > 1 => calls[log[n - 1]].deq < c.deq
             /\ c.ret # 0 =>
                   /\ c.deq < c.ret
                   /\ c.res = RefApply(RefMap(n - 1), c).res
                   /\ c.err = RefApply(RefMap(n - 1), c).err
    /\ \A n, k \in 1..Len(log) : n # k => log[n] # log[k]
    /\ \A c \in CallIds : Answered(c) => \E n \in 1..Len(log) : log[n] = c
    /\ \A n, k \in 1..Len(log) :
          (Returned(log[n]) /\ calls[log[n]].ret < calls[log[k]].inv) => n < k

\* two callers' calls overlapped, the worker took them in the other order than
\* they were invoked, and a later Get saw the value of the one dequeued last
C1_Witness ==
    /\ Len(log) = 3
    /\ log[1] = 2 /\ log[2] = 1 /\ log[3] = 3
    /\ calls[1].proc # calls[2].proc
    /\ calls[2].inv < calls[1].deq
    /\ calls[1].op = PUT /\ calls[2].op = PUT /\ calls[3].op = GET
    /\ calls[1].key = calls[2].key /\ calls[3].key = calls[1].key
    /\ calls[1].val # calls[2].val
    /\ \A c \in CallIds : Answered(c)
    /\ calls[3].res = calls[1].val

\* a returned before b was invoked, and no other Set or Delete of the key can
\* have taken effect between them
Quiet(a, b, k) ==
    /\ a # b
    /\ Answered(a) /\ Answered(b)
    /\ calls[a].key = k /\ calls[b].key = k
    /\ calls[a].ret < calls[b].inv
    /\ \A c \in CallIds \ {a, b} :
          (Mutator(c) /\ calls[c].key = k) =>
              \/ Returned(c) /\ calls[c].ret < calls[a].inv
              \/ calls[b].ret < calls[c].inv

\* no Set of the key can have taken effect before b returned
NeverSet(b, k) ==
    /\ Answered(b)
    /\ calls[b].key = k
    /\ \A c \in CallIds \ {b} :
          (calls[c].op = PUT /\ ~Rejected(c) /\ calls[c].key = k) =>
              calls[b].ret < calls[c].inv

\* C2: a Get(K) after Set(K,V) with no Set or Delete of K in between returns
\* (V, nil), so the last of two Sets wins; every Set(K,V) returns (V, nil).
C2_SetThenGet ==
    /\ \A s \in CallIds :
          (calls[s].op = PUT /\ Answered(s)) =>
              calls[s].res = calls[s].val /\ calls[s].err = ErrNone
    /\ \A s, g \in CallIds :
          (calls[s].op = PUT /\ calls[g].op = GET /\ Quiet(s, g, calls[s].key)) =>
              calls[g].res = calls[s].val /\ calls[g].err = ErrNone

\* Set(K,V1), Set(K,V2), Get(K) one after the other
C2_Witness ==
    /\ Len(calls) = 3
    /\ calls[1].op = PUT /\ calls[2].op = PUT /\ calls[3].op = GET
    /\ calls[1].key = calls[2].key /\ calls[2].key = calls[3].key
    /\ calls[1].val # calls[2].val
    /\ calls[1].ret # 0 /\ calls[1].ret < calls[2].inv
    /\ Quiet(2, 3, calls[2].key)
    /\ calls[3].res = calls[2].val

SetsOf(k) == {c \in CallIds : calls[c].op = PUT /\ calls[c].key = k}

\* C3: once concurrent Sets have all returned without error (and nothing was
\* deleted), every key written is present with a value some Set wrote to it; a
\* key written by one caller only holds that caller's last value.
C3_ConcurrentSets ==
    (/\ \A c \in CallIds : calls[c].op # DELETE
     /\ \A c \in CallIds : calls[c].op = PUT => (Returned(c) /\ calls[c].err = ErrNone))
    => \A k \in Keys :
          SetsOf(k) # {} =>
             /\ k \in DOMAIN store
             /\ \E c \in SetsOf(k) : store[k] = calls[c].val
             /\ (\A c, d \in SetsOf(k) : calls[c].proc = calls[d].proc) =>
                    \E c \in SetsOf(k) :
                        /\ \A d \in SetsOf(k) : d <= c
                        /\ store[k] = calls[c].val

\* two callers set the same key to different values at the same time, a third
\* Set wrote another key; all returned
C3_Witness ==
    /\ Len(calls) = 3
    /\ \A c \in CallIds : calls[c].op = PUT /\ Returned(c) /\ calls[c].err = ErrNone
    /\ calls[1].key = calls[2].key /\ calls[1].val # calls[2].val
    /\ calls[1].proc # calls[2].proc
    /\ calls[2].inv < calls[1].deq /\ calls[1].inv < calls[2].deq
    /\ calls[3].key # calls[1].key
    /\ store[calls[1].key] = calls[1].val
    /\ log[1] = 2

\* C4: a call made after Close() returned gets (nil, error), sends no command
\* and never reaches the worker, so the map is not changed by it.
C4_ClosedRejects ==
    \A c \in CallIds :
        calls[c].afterClose =>
            /\ Returned(c)
            /\ calls[c].err = ErrClosed
            /\ calls[c].res = Nil
            /\ calls[c].deq = 0 /\ ~calls[c].applied
            /\ \A n \in 1..Len(log) : log[n] # c
            /\ cur[calls[c].proc] = c =>
                   (pc[calls[c].proc] = "idle" /\ cmd[calls[c].proc].output # c)

\* a Set that worked, then Close(), then a Set and a Get that were refused and
\* left the map as it was
C4_Witness ==
    /\ Len(calls) = 3
    /\ calls[1].op = PUT /\ Answered(1) /\ calls[1].err = ErrNone
    /\ calls[2].afterClose /\ calls[2].op = PUT /\ calls[2].key = calls[1].key
    /\ calls[2].val # calls[1].val
    /\ calls[3].afterClose /\ calls[3].op = GET
    /\ store = calls[1].post
    /\ store[calls[1].key] = calls[1].val

\* C5: a command is consumed at most once; once the worker is done with it,
\* its call has received exactly one result, that of its own command; no call
\* receives more than one result or the result of another call's command.
C5_OneReplyEach ==
    /\ \A n, k \in 1..Len(log) : n # k => log[n] # log[k]
    /\ \A c \in CallIds :
          /\ calls[c].nrecv <= 1
          /\ calls[c].nrecv = 1 => (calls[c].from = c /\ calls[c].deq # 0)
          /\ calls[c].deq = 0 => calls[c].nrecv = 0
    /\ \A n \in 1..Len(log) :
          (n < Len(log) \/ workerPc \in {"select", "stopped"}) =>
              /\ calls[log[n]].nrecv = 1
              /\ Returned(log[n])
    /\ \A p, q \in Procs :
          (p # q /\ pc[p] # "idle" /\ pc[q] # "idle") => cmd[p].output # cmd[q].output
    /\ workerPc = "reply" =>
          /\ Len(outbox) = 1
          /\ \E p \in Procs :
                pc[p] = "recv" /\ cur[p] = log[Len(log)] /\ cmd[p].output = msg.output

\* Close() cleared the flag while the worker held a command, and the caller
\* still got its result; another caller's command was answered as well
C5_Witness ==
    /\ Len(log) >= 2
    /\ \E c \in CallIds :
          /\ calls[c].activeAtDeq /\ ~calls[c].activeAtRet
          /\ calls[c].nrecv = 1 /\ calls[c].from = c
    /\ \E c, d \in CallIds :
          /\ calls[c].proc # calls[d].proc
          /\ calls[c].nrecv = 1 /\ calls[d].nrecv = 1
    /\ workerPc = "stopped"

\* C6: Delete(K) never fails on an active service: it returns the value K had
\* when the worker applied it (nil if absent), K is absent afterwards and the
\* other keys are as before; a Get(K) that follows fails with nil, and a second
\* Delete(K) returns (nil, nil) and changes nothing.
C6_Delete ==
    /\ \A d \in CallIds :
          (calls[d].op = DELETE /\ ~Rejected(d)) =>
              LET k == calls[d].key
                  pre == calls[d].pre
                  post == calls[d].post
              IN /\ calls[d].applied =>
                       /\ k \notin DOMAIN post
                       /\ DOMAIN post = DOMAIN pre \ {k}
                       /\ \A x \in DOMAIN post : post[x] = pre[x]
                       /\ k \notin DOMAIN pre => post = pre
                 /\ Returned(d) =>
                       /\ calls[d].err = ErrNone
                       /\ calls[d].res = IF k \in DOMAIN pre THEN pre[k] ELSE Nil
    /\ \A s, d \in CallIds :
          (calls[s].op = PUT /\ calls[d].op = DELETE /\ Quiet(s, d, calls[s].key)) =>
              calls[d].res = calls[s].val
    /\ \A d, g \in CallIds :
          (calls[d].op = DELETE /\ calls[g].op = GET /\ Quiet(d, g, calls[d].key)) =>
              calls[g].res = Nil /\ calls[g].err # ErrNone
    /\ \A d, e \in CallIds :
          (calls[d].op = DELETE /\ calls[e].op = DELETE /\ Quiet(d, e, calls[d].key)) =>
              /\ calls[e].res = Nil /\ calls[e].err = ErrNone
              /\ calls[e].post = calls[e].pre

\* Set(K,V), Delete(K), Delete(K) one after the other, with another key in the map
C6_Witness ==
    /\ Len(calls) = 3
    /\ calls[1].op = PUT /\ calls[2].op = DELETE /\ calls[3].op = DELETE
    /\ Quiet(1, 2, calls[1].key) /\ Quiet(2, 3, calls[1].key)
    /\ calls[2].res = calls[1].val
    /\ calls[3].res = Nil /\ calls[3].err = ErrNone
    /\ store = EmptyMap

\* Delete(K) with another key present, which stays
C6_WitnessOtherKey ==
    /\ Len(calls) = 3
    /\ calls[1].op = PUT /\ calls[2].op = PUT /\ calls[3].op = DELETE
    /\ calls[1].key # calls[2].key /\ calls[3].key = calls[1].key
    /\ Answered(3)
    /\ calls[3].res = calls[1].val
    /\ DOMAIN store = {calls[2].key}

\* C7: a Get(K) of a key never Set, or deleted since its last Set, returns
\* (nil, error); a Get on a key absent from the map fails, and no Get changes
\* the map.
C7_GetMissing ==
    /\ \A g \in CallIds :
          (calls[g].op = GET /\ ~Rejected(g)) =>
              /\ calls[g].applied => calls[g].post = calls[g].pre
              /\ (Returned(g) /\ calls[g].key \notin DOMAIN calls[g].pre) =>
                     (calls[g].res = Nil /\ calls[g].err = ErrKeyNotFound)
              /\ NeverSet(g, calls[g].key) =>
                     (calls[g].res = Nil /\ calls[g].err = ErrKeyNotFound)
    /\ \A d, g \in CallIds :
          (calls[d].op = DELETE /\ calls[g].op = GET /\ Quiet(d, g, calls[d].key)) =>
              calls[g].res = Nil /\ calls[g].err = ErrKeyNotFound

\* Set(K,V), Delete(K), Get(K) one after the other
C7_Witness ==
    /\ Len(calls) = 3
    /\ calls[1].op = PUT /\ calls[2].op = DELETE /\ calls[3].op = GET
    /\ Quiet(1, 2, calls[1].key) /\ Quiet(2, 3, calls[1].key)
    /\ calls[3].err = ErrKeyNotFound /\ calls[3].res = Nil
    /\ calls[3].applied /\ store = EmptyMap

\* a Get of a key never set, while another key is in the map
C7_WitnessNeverSet ==
    /\ Len(calls) = 2
    /\ calls[1].op = PUT /\ calls[2].op = GET /\ calls[1].key # calls[2].key
    /\ Answered(1) /\ NeverSet(2, calls[2].key)
    /\ calls[2].err = ErrKeyNotFound
    /\ store = calls[1].post /\ DOMAIN store = {calls[1].key}

\* C8: the virtual-node sequence is in ascending order of hash.
C8_Sorted ==
    \A i, j \in 1..Len(vnodes) : i < j => ~HashLess(vnodes[j].hash, vnodes[i].hash)

\* nodes were added and one that had virtual nodes was removed, others remain
C8_Witness ==
    /\ ringOp.op = "RemoveNode" /\ ringOp.count >= 2
    /\ Len(vnodes) >= 4
    /\ \E i, j \in 1..Len(vnodes) : vnodes[i].nodeId # vnodes[j].nodeId

\* the entries FindNode(hash) may answer with: those of the smallest hash >= hash,
\* or those of the smallest hash of all when none is
Successors(hash) ==
    LET all == 1..Len(vnodes)
        geq == {k \in all : ~HashLess(vnodes[k].hash, hash)}
        from == IF geq # {} THEN geq ELSE all
    IN {k \in from : \A j \in from : ~HashLess(vnodes[j].hash, vnodes[k].hash)}

\* C9: on a ring with a virtual node, FindNode(h) returns the record of the
\* node of the virtual node with the smallest hash >= h, and of the one with
\* the smallest hash of all when h is above every hash.
C9_FindNodeSuccessor ==
    (found.called /\ vnodes # <<>>) =>
        /\ ~found.panic
        /\ \E k \in Successors(found.hash) :
              /\ vnodes[k].nodeId \in DOMAIN nodes
              /\ found.node = nodes[vnodes[k].nodeId]

\* a lookup above every hash of a ring of two nodes wrapped around to the
\* node of the first entry
C9_Witness ==
    /\ found.called /\ ~found.panic
    /\ Len(vnodes) >= 3
    /\ \A k \in 1..Len(vnodes) : HashLess(vnodes[k].hash, found.hash)
    /\ found.node.id = vnodes[1].nodeId
    /\ vnodes[Len(vnodes)].nodeId # vnodes[1].nodeId

\* a lookup inside the ring answered with a node other than the first entry's
C9_WitnessInside ==
    /\ found.called /\ ~found.panic
    /\ Len(vnodes) >= 3
    /\ \E k \in 2..Len(vnodes) :
          /\ HashLess(vnodes[k - 1].hash, found.hash)
          /\ ~HashLess(vnodes[k].hash, found.hash)
          /\ found.node.id = vnodes[k].nodeId
          /\ found.node.id # vnodes[1].nodeId

\* C10: every entry of the virtual-node sequence carries the id of a node in
\* the registry.
C10_VNodesLive ==
    \A k \in 1..Len(vnodes) : vnodes[k].nodeId \in DOMAIN nodes

\* a node with several virtual nodes was removed while another node's remain
C10_Witness ==
    /\ ringOp.op = "RemoveNode" /\ ringOp.count >= 2
    /\ ringOp.id \notin DOMAIN nodes
    /\ vnodes # <<>>
    /\ Cardinality(DOMAIN nodes) >= 1

\* the entries of a ring that carry the id, and those that do not, in ring order
EntriesOf(s, id) == SelectSeq(s, LAMBDA v : v.nodeId = id)

EntriesNotOf(s, id) == SelectSeq(s, LAMBDA v : v.nodeId # id)

\* C11: AddNode(url, weight) adds exactly weight * nodesPerWeight entries, all
\* carrying the new id, and one registry record, and leaves the entries and
\* records of the other nodes as they were; RemoveNode(id) removes exactly the
\* entries carrying id and its record, the rest staying in the same order.
C11_AddRemoveExact ==
    [][/\ \A url \in 1..NumUrls, weight \in 0..MaxWeight :
             AddNode(url, weight) =>
                 LET id == ringOp'.id
                 IN /\ Len(vnodes') = Len(vnodes) + weight * nodesPerWeight
                    /\ Len(EntriesOf(vnodes', id)) = weight * nodesPerWeight
                    /\ EntriesOf(vnodes, id) = <<>>
                    /\ \A x \in DOMAIN nodes : EntriesOf(vnodes', x) = EntriesOf(vnodes, x)
                    /\ Len(EntriesNotOf(vnodes', id)) = Len(vnodes)
                    /\ id \notin DOMAIN nodes
                    /\ DOMAIN nodes' = DOMAIN nodes \cup {id}
                    /\ nodes'[id] = [id |-> id, url |-> url]
                    /\ \A x \in DOMAIN nodes : nodes'[x] = nodes[x]
       /\ \A id \in 0..latestNodeId :
             RemoveNode(id) =>
                 /\ vnodes' = EntriesNotOf(vnodes, id)
                 /\ Len(vnodes) - Len(vnodes') = Len(EntriesOf(vnodes, id))
                 /\ DOMAIN nodes' = DOMAIN nodes \ {id}
                 /\ \A x \in DOMAIN nodes' : nodes'[x] = nodes[x]
      ]_vars

\* a node was removed and a later AddNode then put a full set of entries
\* among those of another node
C11_Witness ==
    /\ ringOp.op = "AddNode"
    /\ ringOp.count = MaxWeight * MaxNodesPerWeight
    /\ ringOp.count >= 2
    /\ Len(vnodes) > ringOp.count
    /\ Cardinality(DOMAIN nodes) < Len(added)

\* C12: the k-th AddNode call, counted from 0, assigns the id k, whatever was
\* removed in between: the ids rise from 0 one by one and none is given twice.
C12_IdsInOrder ==
    /\ \A k \in 1..Len(added) : added[k] = k - 1
    /\ \A id \in DOMAIN nodes :
          /\ nodes[id].id = id
          /\ \E k \in 1..Len(added) : added[k] = id
    /\ \A i \in 1..Len(vnodes) : \E k \in 1..Len(added) : added[k] = vnodes[i].nodeId

\* three AddNode calls with the first two nodes removed before the third
C12_Witness ==
    /\ Len(added) = 3
    /\ DOMAIN nodes = {2}
    /\ ringOp.op = "AddNode"
    /\ Len(vnodes) > 0

\* C13: whenever a node is registered, FindNode returns a registered node for
\* every hash; it fails only when no node is registered.
C13_RegisteredFindSucceeds ==
    (found.called /\ DOMAIN nodes # {}) =>
        /\ ~found.panic
        /\ \E id \in DOMAIN nodes : found.node = nodes[id]

\* C14: once the context is cancelled, no command that was not yet dequeued is
\* dequeued, applied to the map or answered any more.
C14_NothingAfterSignal ==
    [][ctxDone =>
          \A c \in CallIds :
              calls[c].deq = 0 =>
                  /\ calls'[c].deq = 0
                  /\ ~calls'[c].applied
                  /\ calls'[c].nrecv = 0
      ]_vars

\* C15: a call that passed the active check and whose command the worker has
\* not dequeued when the worker returns stays at its send for ever: it gets
\* no value and no error, and the map stays as it is.
C15_BlockedForever ==
    [][\A p \in Procs :
          (pc[p] = "send" /\ workerPc' = "stopped") =>
              /\ pc'[p] = "send"
              /\ cur'[p] = cur[p]
              /\ calls'[cur[p]] = calls[cur[p]]
              /\ calls[cur[p]].err = ErrNone
              /\ calls[cur[p]].deq = 0
              /\ calls[cur[p]].ret = 0
              /\ calls[cur[p]].nrecv = 0
              /\ ~calls[cur[p]].applied
              /\ store' = store
      ]_vars

\* a call made before Close waits at its send, Close has returned, the worker
\* has returned, and a later call of another caller was turned away
C15_Witness ==
    \E p \in Procs :
        /\ pc[p] = "send"
        /\ workerPc = "stopped"
        /\ closes > 0
        /\ ~calls[cur[p]].afterClose
        /\ \E c \in CallIds : c > cur[p] /\ Rejected(c)

\* C16: after Close is called the worker returns at last, and from then on the
\* map does not change.
C16_WorkerTerminates ==
    /\ (~isActive) ~> (workerPc = "stopped")
    /\ [][workerPc = "stopped" => (workerPc' = "stopped" /\ store' = store)]_vars

\* the worker has returned after a Close, having applied a Set it dequeued
\* after Close was called
C16_Witness ==
    /\ workerPc = "stopped"
    /\ closes > 0
    /\ \E c \in CallIds :
          /\ calls[c].op = PUT
          /\ calls[c].applied
          /\ ~calls[c].activeAtDeq
          /\ calls[c].key \in DOMAIN store

\* C17: the ring is a function of the sequence of AddNode and RemoveNode calls,
\* also when entries of different nodes carry the same hash: every outcome of
\* the ordering step of an AddNode is the same ring, and FindNode answers
\* every hash with the same node on each of them.
C17_Deterministic ==
    [][\A url \in 1..NumUrls, weight \in 0..MaxWeight :
          AddNode(url, weight) =>
              \A s \in SortSlice(AppendVNodes(vnodes, ringOp'.id, 0,
                                              weight * nodesPerWeight)) :
                  /\ s = vnodes'
                  /\ \A h \in Probes' :
                        FindNodeResult(s, nodes', h) = FindNodeResult(vnodes', nodes', h)
      ]_vars

\* the index of the entry FindNode(hash) lands on in the sorted ring vs: the
\* first with a hash >= hash, the first of all when none is
LandsAt(vs, hash) ==
    LET geq == {k \in 1..Len(vs) : ~HashLess(vs[k].hash, hash)}
    IN IF geq = {} THEN 1 ELSE CHOOSE k \in geq : \A j \in geq : k <= j

\* the first entry not of node id, going round the ring vs from where
\* FindNode(hash) lands
NextRemaining(vs, id, hash) ==
    LET k == LandsAt(vs, hash)
    IN Head(EntriesNotOf(SubSeq(vs, k, Len(vs)) \o SubSeq(vs, 1, k - 1), id))

\* C18: RemoveNode(id) changes the owner only of the hashes node id owned: a
\* hash another node owned keeps its owner, as long as the ring is not empty
\* afterwards, and a hash node id owned goes to the owner of the next
\* remaining entry on the ring.
C18_RemoveMovesOwnOnly ==
    [][\A id \in 0..latestNodeId :
          (RemoveNode(id) /\ vnodes # <<>> /\ vnodes' # <<>>) =>
              \A h \in Probes :
                  LET before == FindNodeResult(vnodes, nodes, h)
                      after == FindNodeResult(vnodes', nodes', h)
                  IN /\ ~before.panic /\ ~after.panic
                     /\ before.node.id # id => after.node = before.node
                     /\ before.node.id = id =>
                            after.node = nodes'[NextRemaining(vnodes, id, h).nodeId]
      ]_vars

\* after the removal of a node with entries, two nodes are left on the ring
\* and a lookup of a hash the removed node owned, one between an entry left
\* and the removed entry that followed it, is answered by the next entry left
C18_Witness ==
    /\ ringOp.op = "RemoveNode" /\ ringOp.count >= 1
    /\ found.called /\ ~found.panic
    /\ \E i, j \in 1..Len(vnodes) : vnodes[i].nodeId # vnodes[j].nodeId
    /\ \E k \in 1..(Len(vnodes) - 1), i \in 0..(ringOp.count - 1) :
          LET removed == LowBits(fnv32(VNodeKey(ringOp.id, i)), hashWidth)
          IN /\ found.hash = HashSucc(vnodes[k].hash)
             /\ HashGeq(removed, found.hash)
             /\ HashLess(removed, vnodes[k + 1].hash)
             /\ found.node = nodes[vnodes[k + 1].nodeId]

\* C19: AddNode moves hashes to the new node only: on a ring with entries,
\* FindNode(h) after the call returns the node it returned before or the
\* node just added, also when hashes of entries are equal.
C19_AddMovesToNewOnly ==
    [][\A url \in 1..NumUrls, weight \in 0..MaxWeight :
          (AddNode(url, weight) /\ vnodes # <<>>) =>
              \A h \in Probes \cup Probes' :
                  LET before == FindNodeResult(vnodes, nodes, h)
                      after == FindNodeResult(vnodes', nodes', h)
                  IN /\ ~after.panic
                     /\ \/ after.node = before.node
                        \/ after.node.id = ringOp'.id
      ]_vars

\* C20: with Close never called and the context never cancelled, every Set,
\* Get and Delete call of any caller returns at last, and the worker is never
\* left blocked in a send of a reply.
C20_CallsReturn ==
    /\ \A c \in 1..MaxCalls : (Len(calls) >= c) ~> (Len(calls) >= c /\ calls[c].ret # 0)
    /\ (workerPc # "select") ~> (workerPc = "select")

\* the callers had commands waiting at the input channel at the same time,
\* and every call has returned
C20_Witness ==
    /\ Len(calls) = MaxCalls
    /\ \A c \in CallIds : Answered(c)
    /\ \E c, d \in CallIds : c # d /\ calls[d].inv < calls[c].deq /\ calls[c].inv < calls[d].deq
    /\ workerPc = "select"
    /\ isActive /\ ~ctxDone

====
